---------------------------- MODULE Spec2Model ----------------------------
(***************************************************************************)
(* Model of azure/cli/command_modules/sqlvm/_validators.py: the argument   *)
(* validators of the SQL VM command module.                                *)
(*                                                                         *)
(* Values.  Python's None is the empty tuple <<>> and a present value v is *)
(* the one-element tuple <<v>> (Some(v)), so that "x is None", "x is       *)
(* False" and the truth value of x are computed as Python computes them.   *)
(* A path string (a resource name or a resource id) is the non-empty       *)
(* sequence of its '/'-separated segments: "a" is <<"a">>, "" is <<"">>,   *)
(* "/subscriptions/s" is <<"", "subscriptions", "s">>; None is <<>>.       *)
(* A descriptor string (sql_image_offer) is the sequence of its            *)
(* characters.                                                             *)
(***************************************************************************)
EXTENDS Naturals, Sequences, FiniteSets

VARIABLES
    op,         \* the validator that was invoked ("idle" before any)
    pc,         \* position inside the invoked validator
    args,       \* the argument namespace as the parser built it
    namespace,  \* the argument namespace as the validator left it
    env,        \* what the collaborators answer: cmd, SQL VM, VM, directory
    calls,      \* the remote calls issued so far, in order
    outcome,    \* "none" while running, "ok" on return, else the exception
    detail,     \* the values interpolated into the exception's message
    retval,     \* the value returned (None when nothing is returned)
    frame       \* what the stages of validate_azure_ad_authentication pass on

vars == <<op, pc, args, namespace, env, calls, outcome, detail, retval, frame>>

-----------------------------------------------------------------------------
(* Bounds of the model.                                                    *)

MaxPages == 2
MaxPageLen == 1
MaxAssignments == 3
MaxRoles == 1
MaxVms == 2

-----------------------------------------------------------------------------
(* Python values.                                                          *)

None == <<>>
Some(v) == <<v>>

\* bool(x) of an optional string (a path string or Some(text)).
Truthy(x) == x # None /\ x # <<"">>

\* bool(x) of an optional int.
TruthyInt(x) == x # None /\ x # <<0>>

\* Sequences over S of length at most n.
SeqsUpTo(S, n) == UNION {[1..k -> S] : k \in 0..n}

\* The exceptions of azure.cli.core.azclierror the validators raise.
InvalidArgumentValueError == "InvalidArgumentValueError"
RequiredArgumentMissingError == "RequiredArgumentMissingError"
MutuallyExclusiveArgumentError == "MutuallyExclusiveArgumentError"

UserFacingErrors ==
    {InvalidArgumentValueError, RequiredArgumentMissingError,
     MutuallyExclusiveArgumentError}

\* What a call leaves behind: how it ended, the values its message
\* interpolates, the value it returns and the remote calls it issued.
Result(o, d, r, c) == [outcome |-> o, detail |-> d, ret |-> r, calls |-> c]
Returns(r, c) == Result("ok", <<>>, r, c)
Raises(e, d, c) == Result(e, d, None, c)

-----------------------------------------------------------------------------
(* msrestazure.tools and the ambient subscription.                         *)

\* get_subscription_id(cmd.cli_ctx): the subscription of the active login.
get_subscription_id == "sub1"

\* resource_id(**kwargs): None-valued keywords are dropped; the builder
\* stops at the first keyword that is missing.
resource_id(subscription, resource_group, ns, type, name, child_type_1, child_name_1) ==
    LET head == <<"", "subscriptions", subscription>>
        rg   == IF resource_group = None THEN <<>>
                ELSE <<"resourceGroups", resource_group[1]>>
        prov == <<"providers", ns>>
    IN  IF name = None THEN head \o rg \o prov
        ELSE IF child_type_1 = None \/ child_name_1 = None
             THEN head \o rg \o prov \o <<type>> \o name
             ELSE head \o rg \o prov \o <<type>> \o name
                       \o <<child_type_1[1]>> \o child_name_1

\* Whether segs is a run of type/name pairs, every name non-empty.
RECURSIVE IsChildren(_)
IsChildren(segs) ==
    IF segs = <<>> THEN TRUE
    ELSE /\ Len(segs) >= 2
         /\ segs[2] # ""
         /\ IsChildren(SubSeq(segs, 3, Len(segs)))

\* Whether segs is "providers/<namespace>/<type>/<name>" and its children.
IsProviderPart(segs) ==
    \/ segs = <<>>
    \/ /\ Len(segs) >= 4
       /\ segs[1] = "providers"
       /\ segs[2] # ""
       /\ segs[4] # ""
       /\ IsChildren(SubSeq(segs, 5, Len(segs)))

\* is_valid_resource_id(rid): rid is non-empty and parse_resource_id
\* followed by resource_id gives rid back.
is_valid_resource_id(rid) ==
    /\ rid # None
    /\ Len(rid) >= 3
    /\ rid[1] = ""
    /\ rid[2] = "subscriptions"
    /\ rid[3] # ""
    /\ LET rest == SubSeq(rid, 4, Len(rid))
       IN  IF Len(rest) >= 2 /\ rest[1] = "resourceGroups"
           THEN rest[2] # "" /\ IsProviderPart(SubSeq(rest, 3, Len(rest)))
           ELSE IsProviderPart(rest)

\* '/' in s, for a path string s.
HasSlash(s) == Len(s) > 1

-----------------------------------------------------------------------------
(* validate_subnet                                                         *)

\* A variant that drops the "name without vnet" half of the exclusivity test.
validate_subnet_no_vnet_unchecked(ns) ==
    LET subnet == ns.subnet_resource_id
        vnet   == ns.vnet_name
        subnet_is_id == is_valid_resource_id(subnet)
    IN  IF Truthy(vnet) /\ HasSlash(vnet)
        THEN [ns |-> ns, res |-> Raises(InvalidArgumentValueError, <<>>, <<>>)]
        ELSE IF subnet_is_id /\ Truthy(vnet)
        THEN [ns |-> ns, res |-> Raises(MutuallyExclusiveArgumentError, <<>>, <<>>)]
        ELSE IF ~subnet_is_id /\ Truthy(vnet)
        THEN [ns |-> [ns EXCEPT !.subnet_resource_id =
                        resource_id(get_subscription_id, ns.resource_group_name,
                                    "Microsoft.Network", "virtualNetworks", vnet,
                                    Some("subnets"), subnet)],
              res |-> Returns(None, <<>>)]
        ELSE [ns |-> ns, res |-> Returns(None, <<>>)]

\* validate_subnet(cmd, namespace): the namespace it leaves and how it ends.
validate_subnet_body(ns) ==
    LET subnet == ns.subnet_resource_id
        vnet   == ns.vnet_name
        subnet_is_id == is_valid_resource_id(subnet)
    IN  IF Truthy(vnet) /\ HasSlash(vnet)
        THEN [ns |-> ns, res |-> Raises(InvalidArgumentValueError, <<>>, <<>>)]
        ELSE IF (subnet_is_id /\ Truthy(vnet)) \/ (~subnet_is_id /\ ~Truthy(vnet))
        THEN [ns |-> ns, res |-> Raises(MutuallyExclusiveArgumentError, <<>>, <<>>)]
        ELSE IF ~subnet_is_id /\ Truthy(vnet)
        THEN [ns |-> [ns EXCEPT !.subnet_resource_id =
                        resource_id(get_subscription_id, ns.resource_group_name,
                                    "Microsoft.Network", "virtualNetworks", vnet,
                                    Some("subnets"), subnet)],
              res |-> Returns(None, <<>>)]
        ELSE [ns |-> ns, res |-> Returns(None, <<>>)]

-----------------------------------------------------------------------------
(* validate_sqlvm_group, validate_sqlvm_list, validate_load_balancer,      *)
(* validate_public_ip_address                                              *)

\* The identifier the validators build for `name` in the resource group of
\* the namespace.
qualified(ns, provider, type, name) ==
    resource_id(get_subscription_id, ns.resource_group_name, provider, type,
                name, None, None)

\* "if value and not is_valid_resource_id(value)": the value the field
\* holds afterwards.
normalized(ns, provider, type, value) ==
    IF Truthy(value) /\ ~is_valid_resource_id(value)
    THEN qualified(ns, provider, type, value)
    ELSE value

\* validate_sqlvm_group(cmd, namespace)
validate_sqlvm_group_body(ns) ==
    [ns EXCEPT !.sql_virtual_machine_group_resource_id =
        normalized(ns, "Microsoft.SqlVirtualMachine", "sqlVirtualMachineGroups",
                   ns.sql_virtual_machine_group_resource_id)]

\* A variant that qualifies the first element of the list only.
validate_sqlvm_list_first_only(ns) ==
    LET vms == ns.sql_virtual_machine_instances[1]
    IN  [ns EXCEPT !.sql_virtual_machine_instances =
            Some([n \in 1..Len(vms) |->
                    IF n = 1
                    THEN normalized(ns, "Microsoft.SqlVirtualMachine",
                                    "sqlVirtualMachines", vms[n])
                    ELSE vms[n]])]

\* validate_sqlvm_list(cmd, namespace): element n of the list is assigned
\* in place.
validate_sqlvm_list_body(ns) ==
    LET vms == ns.sql_virtual_machine_instances[1]
    IN  [ns EXCEPT !.sql_virtual_machine_instances =
            Some([n \in 1..Len(vms) |->
                    normalized(ns, "Microsoft.SqlVirtualMachine",
                               "sqlVirtualMachines", vms[n])])]

\* validate_load_balancer(cmd, namespace): the test has no "lb and", so
\* None and '' are qualified as well.
validate_load_balancer_body(ns) ==
    LET lb == ns.load_balancer_resource_id
    IN  IF ~is_valid_resource_id(lb)
        THEN [ns EXCEPT !.load_balancer_resource_id =
                qualified(ns, "Microsoft.Network", "loadBalancers", lb)]
        ELSE ns

\* validate_public_ip_address(cmd, namespace)
validate_public_ip_address_body(ns) ==
    [ns EXCEPT !.public_ip_address_resource_id =
        normalized(ns, "Microsoft.Network", "publicIPAddresses",
                   ns.public_ip_address_resource_id)]

-----------------------------------------------------------------------------
(* validate_assessment                                                     *)

\* A variant that tests the schedule fields for truth instead of "is not None".
validate_assessment_truthiness(ns) ==
    LET weekly  == ns.assessment_weekly_interval
        monthly == ns.assessment_monthly_occurrence
        day     == ns.assessment_day_of_week
        start   == ns.assessment_start_time_local
        provided == TruthyInt(weekly) \/ TruthyInt(monthly) \/ Truthy(day) \/ Truthy(start)
    IN  IF ns.enable_assessment_schedule = Some(FALSE) /\ provided
        THEN Raises(InvalidArgumentValueError, <<"enable-assessment-schedule">>, <<>>)
        ELSE IF ns.enable_assessment = Some(FALSE) /\ provided
        THEN Raises(InvalidArgumentValueError, <<"enable-assessment">>, <<>>)
        ELSE IF ~provided THEN Returns(None, <<>>)
        ELSE IF TruthyInt(weekly) /\ TruthyInt(monthly)
        THEN Raises(MutuallyExclusiveArgumentError, <<>>, <<>>)
        ELSE IF ~TruthyInt(weekly) /\ ~TruthyInt(monthly)
        THEN Raises(RequiredArgumentMissingError, <<"interval">>, <<>>)
        ELSE IF ~Truthy(day)
        THEN Raises(RequiredArgumentMissingError, <<"assessment-day-of-week">>, <<>>)
        ELSE IF ~Truthy(start)
        THEN Raises(RequiredArgumentMissingError, <<"assessment-start-time-local">>, <<>>)
        ELSE Returns(None, <<>>)

\* validate_assessment(namespace): how it ends; the namespace is only read.
validate_assessment_body(ns) ==
    LET weekly  == ns.assessment_weekly_interval
        monthly == ns.assessment_monthly_occurrence
        day     == ns.assessment_day_of_week
        start   == ns.assessment_start_time_local
        is_assessment_schedule_provided ==
            \/ weekly # None
            \/ weekly # None
            \/ monthly # None
            \/ day # None
            \/ start # None
    IN  IF ns.enable_assessment_schedule = Some(FALSE) /\ is_assessment_schedule_provided
        THEN Raises(InvalidArgumentValueError, <<"enable-assessment-schedule">>, <<>>)
        ELSE IF ns.enable_assessment = Some(FALSE) /\ is_assessment_schedule_provided
        THEN Raises(InvalidArgumentValueError, <<"enable-assessment">>, <<>>)
        ELSE IF ~is_assessment_schedule_provided THEN Returns(None, <<>>)
        ELSE IF weekly # None /\ monthly # None
        THEN Raises(MutuallyExclusiveArgumentError, <<>>, <<>>)
        ELSE IF weekly = None /\ monthly = None
        THEN Raises(RequiredArgumentMissingError, <<"interval">>, <<>>)
        ELSE IF day = None
        THEN Raises(RequiredArgumentMissingError, <<"assessment-day-of-week">>, <<>>)
        ELSE IF start = None
        THEN Raises(RequiredArgumentMissingError, <<"assessment-start-time-local">>, <<>>)
        ELSE Returns(None, <<>>)

-----------------------------------------------------------------------------
(* _validate_azure_ad_authentication_supported_on_sqlvm                    *)

\* A remote call as the log of calls records it.
Call(api, url, failed) == [api |-> api, url |-> url, failed |-> failed]

Digits == {"0", "1", "2", "3", "4", "5", "6", "7", "8", "9"}

DigitValue(c) ==
    CASE c = "0" -> 0 [] c = "1" -> 1 [] c = "2" -> 2 [] c = "3" -> 3
      [] c = "4" -> 4 [] c = "5" -> 5 [] c = "6" -> 6 [] c = "7" -> 7
      [] c = "8" -> 8 [] c = "9" -> 9

\* s.split('-'): the pieces of s between its dashes.
RECURSIVE SplitDash(_, _)
SplitDash(s, piece) ==
    IF s = <<>> THEN <<piece>>
    ELSE IF Head(s) = "-" THEN <<piece>> \o SplitDash(Tail(s), <<>>)
    ELSE SplitDash(Tail(s), Append(piece, Head(s)))

\* Whether int(s) succeeds, for a string of the characters the model draws.
IsInt(s) == s # <<>> /\ \A i \in 1..Len(s) : s[i] \in Digits

\* int(s) for a string of digits.
RECURSIVE ToInt(_)
ToInt(s) ==
    IF s = <<>> THEN 0
    ELSE 10 * ToInt(SubSeq(s, 1, Len(s) - 1)) + DigitValue(s[Len(s)])

\* s.startswith(prefix)
StartsWith(s, prefix) ==
    Len(s) >= Len(prefix) /\ SubSeq(s, 1, Len(prefix)) = prefix

MinSqlVersion == 2022

\* The checks on sqlvm.sql_image_offer that follow a successful fetch.
sql_image_offer_supported(offer) ==
    IF offer = None THEN FALSE
    ELSE LET version_platform == SplitDash(offer[1], <<>>)
         IN  IF Len(version_platform) < 2 THEN FALSE
             ELSE LET version  == version_platform[1]
                      platform == version_platform[2]
                      digits   == SubSeq(version, 4, Len(version))
                  IN  IF ~IsInt(digits) THEN FALSE
                      ELSE ~(ToInt(digits) < MinSqlVersion
                             \/ ~StartsWith(platform, <<"W", "S">>))

\* _validate_azure_ad_authentication_supported_on_sqlvm(cli_ctx, namespace),
\* sqlvm being what sqlvm_ops.get answers.
validate_azure_ad_authentication_supported_on_sqlvm(sqlvm) ==
    LET c == <<Call("sql_virtual_machines.get", None, sqlvm.raised)>>
    IN  IF sqlvm.raised
        THEN Raises(InvalidArgumentValueError, <<"retrieving SQL VM instance">>, c)
        ELSE IF sql_image_offer_supported(sqlvm.sql_image_offer)
        THEN Returns(None, c)
        ELSE Raises(InvalidArgumentValueError, <<"unsupported_error">>, c)

-----------------------------------------------------------------------------
(* _validate_msi_valid_on_vm                                               *)

\* An attribute of an SDK object: missing, or set to a value (maybe None).
Missing == [attr |-> "missing"]
Attr(v) == [attr |-> "set", v |-> v]
hasattr(a) == a.attr # "missing"

\* The first user-assigned identity whose client id is client_id: its
\* principal id, or None when the loop ends without a match.
RECURSIVE first_matching_umi(_, _)
first_matching_umi(umis, client_id) ==
    IF umis = <<>> THEN None
    ELSE IF Some(Head(umis).client_id) = client_id
         THEN Some(Head(umis).principal_id)
         ELSE first_matching_umi(Tail(umis), client_id)

\* _validate_msi_valid_on_vm(cli_ctx, namespace), vm being what
\* compute_client.virtual_machines.get answers.
validate_msi_valid_on_vm(ns, vm) ==
    LET c == <<Call("virtual_machines.get", None, vm.raised)>>
        not_attached == Raises(InvalidArgumentValueError, ns.msi_client_id, c)
    IN  IF vm.raised
        THEN Raises(InvalidArgumentValueError, <<"retrieving the Azure VM instance">>, c)
        ELSE IF ns.msi_client_id = None
        THEN IF \/ vm.identity = None
                \/ ~hasattr(vm.identity[1].principal_id)
                \/ vm.identity[1].principal_id.v = None
             THEN Raises(InvalidArgumentValueError,
                         <<"system-assigned managed identity is not enabled">>, c)
             ELSE Returns(vm.identity[1].principal_id.v, c)
        ELSE IF vm.identity = None \/ ~hasattr(vm.identity[1].user_assigned_identities)
        THEN not_attached
        ELSE IF vm.identity[1].user_assigned_identities.v = None
        THEN Raises("TypeError", <<"'NoneType' object is not iterable">>, c)
        ELSE LET found == first_matching_umi(
                              vm.identity[1].user_assigned_identities.v[1],
                              ns.msi_client_id)
             IN  IF found # None THEN Returns(found, c) ELSE not_attached

-----------------------------------------------------------------------------
(* _send: one call of the directory-graph API, its pages followed.         *)

\* A URL names the page the server answers it with: the URL a caller
\* builds names page 1, the '@odata.nextLink' of page k names page k + 1.
Url(path, page) == [path |-> path, page |-> page]

\* What _send returns besides None: a list, or the decoded body.
PyList(items) == Some([type |-> "list", items |-> items])
PyDict(body) == Some([type |-> "dict", body |-> body])

\* bool(body) of the body parameter: None and the empty dict are false.
TruthyBody(body) == body # None /\ body # Some({})

\* The loop of _send from the request of url on; script[k] is the
\* server's answer for page k.
RECURSIVE send_loop(_, _, _, _, _)
send_loop(script, url, list_result, is_list_result, issued) ==
    LET r == script[url.page]
        c == Append(issued, Call("send_raw_request", url, r.kind = "raise"))
    IN  IF r.kind = "raise"
        THEN Raises(InvalidArgumentValueError, <<"querying Microsoft Graph API">>, c)
        ELSE IF r.kind = "empty" THEN Returns(None, c)
        ELSE IF r.kind = "badjson" THEN Raises("JSONDecodeError", <<>>, c)
        ELSE LET extended == IF r.has_value THEN list_result \o r.value
                                            ELSE list_result
                 is_list  == is_list_result \/ r.has_value
             IN  IF r.next # None
                 THEN send_loop(script, r.next[1], extended, is_list, c)
                 ELSE IF is_list THEN Returns(PyList(extended), c)
                 ELSE Returns(PyDict(r), c)

\* _send(cli_ctx, method, url, param, body): the loop is inside "if body:",
\* so that without a body the function ends without a request and
\* returns None.
_send(method, url, param, body, script) ==
    IF TruthyBody(body)
    THEN send_loop(script, Url(url, 1), <<>>, FALSE, <<>>)
    ELSE Returns(None, <<>>)

-----------------------------------------------------------------------------
(* The directory-graph API as the server holds it.                         *)

\* The answer for one page of a list: its items and the link to the next.
JsonPage(has_value, value, next) ==
    [kind |-> "json", has_value |-> has_value, value |-> value, next |-> next]

\* The pages the server cuts a list into, MaxPageLen items a page, the
\* first of them being page number `page`.
RECURSIVE PagesOf(_, _, _)
PagesOf(path, items, page) ==
    IF Len(items) <= MaxPageLen
    THEN <<JsonPage(TRUE, items, None)>>
    ELSE <<JsonPage(TRUE, SubSeq(items, 1, MaxPageLen), Some(Url(path, page + 1)))>>
         \o PagesOf(path, SubSeq(items, MaxPageLen + 1, Len(items)), page + 1)

\* What send_raw_request answers for a list of the directory: its pages
\* while the directory-graph API is up, an exception while it is down.
Answers(directory, path, items) ==
    IF directory.graph = "down" THEN <<[kind |-> "raise"]>>
    ELSE PagesOf(path, items, 1)

DIRECTORY_ROLE_URL == "/servicePrincipals/{}/transitiveMemberOf/microsoft.graph.directoryRole"
APP_ROLE_ASSIGNMENT_URL == "/servicePrincipals/{}/appRoleAssignments"
MICROSOFT_GRAPH_URL == "/servicePrincipals?$filter=displayName%20eq%20'Microsoft%20Graph'"

\* DIRECTORY_ROLE_URL.format(principal_id) and the like.
Format(url, principal_id) == <<url, principal_id>>

\* _directory_role_list(cli_ctx, principal_id)
_directory_role_list(principal_id, directory) ==
    _send("GET", Format(DIRECTORY_ROLE_URL, principal_id), None, None,
          Answers(directory, DIRECTORY_ROLE_URL, directory.roles))

\* _app_role_assignment_list(cli_ctx, principal_id)
_app_role_assignment_list(principal_id, directory) ==
    _send("GET", Format(APP_ROLE_ASSIGNMENT_URL, principal_id), None, None,
          Answers(directory, APP_ROLE_ASSIGNMENT_URL, directory.assignments))

-----------------------------------------------------------------------------
(* _find_role_id                                                           *)

USER_READ_ALL == "User.Read.All"
APPLICATION_READ_ALL == "Application.Read.All"
GROUP_MEMBER_READ_ALL == "GroupMember.Read.All"

Scopes == {USER_READ_ALL, APPLICATION_READ_ALL, GROUP_MEMBER_READ_ALL}

\* A dict keyed by scope: None stands for "the key is not in the dict".
EmptyMap == [s \in Scopes |-> None]
MapLen(m) == Cardinality({s \in Scopes : m[s] # None})

\* The loop over app_roles: a later entry for a scope overwrites an
\* earlier one, an entry for any other scope is skipped.
RECURSIVE collect_app_roles(_, _)
collect_app_roles(app_roles, m) ==
    IF app_roles = <<>> THEN m
    ELSE LET app_role == Head(app_roles)
         IN  collect_app_roles(Tail(app_roles),
                 IF app_role.value \in Scopes
                 THEN [m EXCEPT ![app_role.value] = Some(app_role.id)]
                 ELSE m)

\* A variant in which the failed request is not caught.
find_role_id_from_uncaught(r) ==
    IF r.outcome # "ok" THEN r
    ELSE IF r.ret = None THEN Raises("TypeError", <<>>, r.calls)
    ELSE Returns(EmptyMap, r.calls)

\* _find_role_id from the answer r of its _send on: any exception of
\* _send is caught, an absent or empty answer gives the empty map.
find_role_id_from(r) ==
    IF r.outcome # "ok" THEN Returns(EmptyMap, r.calls)
    ELSE IF r.ret = None THEN Returns(EmptyMap, r.calls)
    ELSE LET service_principals == r.ret[1]
         IN  IF service_principals.type # "list"
             THEN Raises("KeyError", <<"0">>, r.calls)
             ELSE IF service_principals.items = <<>>
             THEN Returns(EmptyMap, r.calls)
             ELSE IF ~service_principals.items[1].has_appRoles
             THEN Raises("KeyError", <<"appRoles">>, r.calls)
             ELSE Returns(collect_app_roles(service_principals.items[1].appRoles,
                                            EmptyMap),
                          r.calls)

\* _find_role_id(cli_ctx)
_find_role_id(directory) ==
    find_role_id_from(
        _send("GET", MICROSOFT_GRAPH_URL, None, None,
              Answers(directory, MICROSOFT_GRAPH_URL,
                      directory.service_principals)))

-----------------------------------------------------------------------------
(* _validate_msi_with_enough_permission                                    *)

USER_READ_ALL_ROLE_ID == "a154be20-db9c-4678-8ab7-66f6cc099a59"
APPLICATION_READ_ALL_ROLE_ID == "9a5d68dd-52b0-4cc2-bd40-abcf44ac3a30"
GROUP_MEMBER_READ_ALL_ROLE_ID == "98830695-27a2-44f7-8c18-0c3ebc9698f6"

\* m.setdefault(k, v)
setdefault(m, k, v) == IF m[k] = None THEN [m EXCEPT ![k] = Some(v)] ELSE m

\* The three setdefault calls that follow _find_role_id.
with_defaults(m) ==
    setdefault(setdefault(setdefault(m,
        USER_READ_ALL, USER_READ_ALL_ROLE_ID),
        APPLICATION_READ_ALL, APPLICATION_READ_ALL_ROLE_ID),
        GROUP_MEMBER_READ_ALL, GROUP_MEMBER_READ_ALL_ROLE_ID)

\* list.remove(x) on a list without repeats.
Remove(list, x) == SelectSeq(list, LAMBDA y : y # x)
Contains(list, x) == \E i \in 1..Len(list) : list[i] = x

\* The scope whose branch of the if/elif chain the assignment takes.
matched_scope(assignment, m) ==
    IF Some(assignment.appRoleId) = m[USER_READ_ALL] THEN Some(USER_READ_ALL)
    ELSE IF Some(assignment.appRoleId) = m[APPLICATION_READ_ALL]
    THEN Some(APPLICATION_READ_ALL)
    ELSE IF Some(assignment.appRoleId) = m[GROUP_MEMBER_READ_ALL]
    THEN Some(GROUP_MEMBER_READ_ALL)
    ELSE None

\* The loop over app_role_assignments and the test that follows it:
\* missing_roles.remove raises ValueError for a scope already removed.
RECURSIVE match_assignments(_, _, _, _)
match_assignments(assignments, m, missing_roles, c) ==
    IF assignments = <<>>
    THEN IF Len(missing_roles) > 0
         THEN Raises(InvalidArgumentValueError, missing_roles, c)
         ELSE Returns(None, c)
    ELSE LET scope == matched_scope(Head(assignments), m)
         IN  IF scope = None
             THEN match_assignments(Tail(assignments), m, missing_roles, c)
             ELSE IF ~Contains(missing_roles, scope[1])
             THEN Raises("ValueError", <<"list.remove(x): x not in list">>, c)
             ELSE LET left == Remove(missing_roles, scope[1])
                  IN  IF Len(left) = 0 THEN Returns(None, c)
                      ELSE match_assignments(Tail(assignments), m, left, c)

\* Iterating what _send returned: None and a decoded body that is not a
\* list cannot be iterated as a list of records.
NotAList(ret) == ret = None \/ ret[1].type # "list"

\* _validate_msi_with_enough_permission(cli_ctx, principal_id)
validate_msi_with_enough_permission(principal_id, directory) ==
    LET directory_roles == _directory_role_list(principal_id, directory)
    IN  IF directory_roles.outcome # "ok" THEN directory_roles
        ELSE IF NotAList(directory_roles.ret)
        THEN Raises("TypeError", <<"directory_roles">>, directory_roles.calls)
        ELSE IF \E i \in 1..Len(directory_roles.ret[1].items) :
                   directory_roles.ret[1].items[i].displayName = "Directory Readers"
        THEN Returns(None, directory_roles.calls)
        ELSE LET found == _find_role_id(directory)
                 c2 == directory_roles.calls \o found.calls
             IN  IF found.outcome # "ok"
                 THEN Raises(found.outcome, found.detail, c2)
                 ELSE LET app_role_id_map == with_defaults(found.ret)
                          app_role_assignments ==
                              _app_role_assignment_list(principal_id, directory)
                          c3 == c2 \o app_role_assignments.calls
                      IN  IF app_role_assignments.outcome # "ok"
                          THEN Raises(app_role_assignments.outcome,
                                      app_role_assignments.detail, c3)
                          ELSE IF NotAList(app_role_assignments.ret)
                          THEN Raises("TypeError", <<"app_role_assignments">>, c3)
                          ELSE match_assignments(
                                   app_role_assignments.ret[1].items,
                                   app_role_id_map,
                                   <<USER_READ_ALL, APPLICATION_READ_ALL,
                                     GROUP_MEMBER_READ_ALL>>,
                                   c3)

-----------------------------------------------------------------------------
(* The argument namespace and the inputs the model draws.                  *)

\* The namespace the parser builds when no option is given.
EmptyNamespace ==
    [resource_group_name |-> None,
     sql_virtual_machine_name |-> None,
     sql_virtual_machine_group_resource_id |-> None,
     sql_virtual_machine_instances |-> None,
     load_balancer_resource_id |-> None,
     public_ip_address_resource_id |-> None,
     subnet_resource_id |-> None,
     vnet_name |-> None,
     enable_assessment |-> None,
     enable_assessment_schedule |-> None,
     assessment_weekly_interval |-> None,
     assessment_monthly_occurrence |-> None,
     assessment_day_of_week |-> None,
     assessment_start_time_local |-> None,
     enable_azure_ad_auth |-> None,
     skip_msi_validation |-> None,
     msi_client_id |-> None]

\* The collaborators before any of them has been asked anything.
EmptyEnv ==
    [cmd_ctx_cli |-> None,
     sqlvm |-> None,
     vm |-> None,
     directory |-> None,
     request |-> None,
     script |-> None]

\* Nothing passed on yet: `resolved` is what _validate_msi_valid_on_vm
\* returned, `principal_id` the argument of the permission check.
EmptyFrame == [resolved |-> None, principal_id |-> None]

\* A str, and the namespace object, as arguments.
PyStr(v) == Some([type |-> "str", v |-> v])
PyNamespace == Some([type |-> "Namespace", v |-> "namespace"])

ResourceGroups == {"rg1", "rg2"}

\* --subnet is a required option: a name, an id, or a malformed id.
SubnetInputs ==
    {<<"sn1">>, <<"">>, <<"a", "b">>,
     <<"", "subscriptions", "sub9">>,
     <<"", "subscriptions", "sub9", "resourceGroups", "rg9", "providers",
       "Microsoft.Network", "virtualNetworks", "vn9", "subnets", "sn9">>,
     <<"", "subscriptions", "sub9", "resourceGroups", "rg9", "providers",
       "Microsoft.Network", "virtualNetworks", "vn9", "subnets">>}

\* A resource given by name or by id: a name, a name with '/', the id of
\* a resource elsewhere, the id of a subscription.
ResourceInputs ==
    {<<"n1">>, <<"a", "b">>,
     <<"", "subscriptions", "sub9", "resourceGroups", "rg9", "providers",
       "Microsoft.Compute", "virtualMachines", "vm9">>,
     <<"", "subscriptions", "sub9">>}

\* An optional option of that kind: absent, empty, or given.
OptionalResourceInputs == {None, <<"">>} \cup ResourceInputs

\* --sqlvms: a list of names and ids.
VmListInputs == SeqsUpTo({<<"">>} \cup ResourceInputs, MaxVms)

\* --vnet-name: absent, empty, a name, or something that looks like an id.
VnetInputs ==
    {None, <<"">>, <<"vn1">>, <<"a", "b">>,
     <<"", "subscriptions", "sub9", "resourceGroups", "rg9", "providers",
       "Microsoft.Network", "virtualNetworks", "vn9">>}

OptionalBools == {None, Some(TRUE), Some(FALSE)}
IntervalInputs == {None, Some(0), Some(2)}
OccurrenceInputs == {None, Some(0), Some(1)}
DayInputs == {None, Some("Monday")}
StartTimeInputs == {None, Some(""), Some("19:30")}

\* cmd.ctx_cli.cloud.name: the attribute cmd.ctx_cli is read only at the
\* cloud gate (everywhere else the code reads cmd.cli_ctx), so a command
\* object may well lack it.
AZURE_PUBLIC_CLOUD == "AzureCloud"
CloudInputs == {Missing, Attr(AZURE_PUBLIC_CLOUD), Attr("AzureChinaCloud")}

SQL == <<"S", "Q", "L">>
WS == <<"W", "S">>
Y2022 == <<"2", "0", "2", "2">>
Y2019 == <<"2", "0", "1", "9">>
Y2025 == <<"2", "0", "2", "5">>

\* sqlvm.sql_image_offer: absent, supported, too old, not on Windows,
\* without a platform, without a year.
OfferInputs ==
    {None,
     Some(SQL \o Y2022 \o <<"-">> \o WS \o Y2022),
     Some(SQL \o Y2025 \o <<"-">> \o WS \o Y2025 \o <<"-", "B">>),
     Some(SQL \o Y2019 \o <<"-">> \o WS \o Y2019),
     Some(SQL \o Y2022 \o <<"-", "R", "H", "E", "L">>),
     Some(SQL \o Y2022),
     Some(SQL \o <<"-">> \o WS \o Y2022),
     Some(SQL \o <<"v", "N">> \o <<"-">> \o WS \o Y2022)}

\* What sqlvm_ops.get answers: an exception, or the SQL VM.
SqlVmAnswers ==
    {[raised |-> TRUE, sql_image_offer |-> None]}
    \cup {[raised |-> FALSE, sql_image_offer |-> o] : o \in OfferInputs}

ClientIdInputs == {None, Some("c1"), Some("c3")}

Umi(client_id, principal_id) == [client_id |-> client_id, principal_id |-> principal_id]

\* vm.identity: None, or an identity block whose two attributes are each
\* missing, None or set.
IdentityInputs ==
    {None}
    \cup {Some([principal_id |-> p, user_assigned_identities |-> u]) :
            p \in {Missing, Attr(None), Attr(Some("p-sys"))},
            u \in {Missing, Attr(None), Attr(Some(<<>>)),
                   Attr(Some(<<Umi("c1", "p-u1")>>)),
                   Attr(Some(<<Umi("c2", "p-u2"), Umi("c1", "p-u1")>>)),
                   Attr(Some(<<Umi("c2", "p-u2")>>))}}

\* What compute_client.virtual_machines.get answers.
VmAnswers ==
    {[raised |-> TRUE, identity |-> None]}
    \cup {[raised |-> FALSE, identity |-> i] : i \in IdentityInputs}

RoleNames == {"Directory Readers", "Global Reader"}
OTHER_ROLE_ID == "df021288-bdef-4463-88db-98f22de89214"
AppRoleIds ==
    {USER_READ_ALL_ROLE_ID, APPLICATION_READ_ALL_ROLE_ID,
     GROUP_MEMBER_READ_ALL_ROLE_ID, OTHER_ROLE_ID}

AppRole(value, id) == [value |-> value, id |-> id]
ServicePrincipal(app_roles) == [has_appRoles |-> TRUE, appRoles |-> app_roles]

\* The service principals named 'Microsoft Graph': none, one that declares
\* the three scopes under the ids the code hardcodes, one that declares
\* User.Read.All under another id and nothing for GroupMember.Read.All.
GraphSpInputs ==
    {<<>>,
     <<ServicePrincipal(<<AppRole(USER_READ_ALL, USER_READ_ALL_ROLE_ID),
                          AppRole(APPLICATION_READ_ALL, APPLICATION_READ_ALL_ROLE_ID),
                          AppRole(GROUP_MEMBER_READ_ALL, GROUP_MEMBER_READ_ALL_ROLE_ID)>>)>>,
     <<ServicePrincipal(<<AppRole("Mail.Read", "810c84a8-4a9e-49e6-bf7d-12d183f40d01"),
                          AppRole(USER_READ_ALL, OTHER_ROLE_ID),
                          AppRole(APPLICATION_READ_ALL, APPLICATION_READ_ALL_ROLE_ID)>>)>>}

\* Whether send_raw_request reaches the directory-graph API.
GraphHealth == {"up", "down"}

\* What the directory holds for the principal.
Directories ==
    [graph : GraphHealth,
     roles : SeqsUpTo({[displayName |-> n] : n \in RoleNames}, MaxRoles),
     assignments : SeqsUpTo({[appRoleId |-> i] : i \in AppRoleIds}, MaxAssignments),
     service_principals : GraphSpInputs]

\* The answers of the server to a direct call of _send: up to MaxPages
\* pages, every page but the last a JSON page that links to the next,
\* the last one any answer.
SendItems == {"x", "y"}
PageContents ==
    {[has_value |-> TRUE, value |-> v] : v \in SeqsUpTo(SendItems, MaxPageLen)}
    \cup {[has_value |-> FALSE, value |-> <<>>]}
LastAnswers ==
    {JsonPage(p.has_value, p.value, None) : p \in PageContents}
    \cup {[kind |-> "raise"], [kind |-> "empty"], [kind |-> "badjson"]}
Scripts(path) ==
    UNION {{[k \in 1..n |-> IF k < n
                            THEN JsonPage(f[k].has_value, f[k].value,
                                          Some(Url(path, k + 1)))
                            ELSE last] :
              f \in [1..(n - 1) -> PageContents], last \in LastAnswers} :
           n \in 1..MaxPages}

MethodInputs == {"GET", "POST"}
BodyInputs == {None, Some({}), Some({"k"})}

-----------------------------------------------------------------------------
(* Init and the single-step validators.                                    *)

Init ==
    /\ op = "idle"
    /\ pc = "idle"
    /\ args = EmptyNamespace
    /\ namespace = EmptyNamespace
    /\ env = EmptyEnv
    /\ calls = <<>>
    /\ outcome = "none"
    /\ detail = <<>>
    /\ retval = None
    /\ frame = EmptyFrame

\* The validator has ended with result r.
Finish(r) ==
    /\ pc' = "done"
    /\ calls' = calls \o r.calls
    /\ outcome' = r.outcome
    /\ detail' = r.detail
    /\ retval' = r.ret

validate_subnet ==
    /\ pc = "idle"
    /\ \E rg \in ResourceGroups, subnet \in SubnetInputs, vnet \in VnetInputs :
         LET ns == [EmptyNamespace EXCEPT !.resource_group_name = Some(rg),
                                          !.subnet_resource_id = subnet,
                                          !.vnet_name = vnet]
             r  == validate_subnet_body(ns)
         IN  /\ op' = "validate_subnet"
             /\ args' = ns
             /\ namespace' = r.ns
             /\ Finish(r.res)
    /\ UNCHANGED <<env, frame>>

validate_assessment ==
    /\ pc = "idle"
    /\ \E ea \in OptionalBools, eas \in OptionalBools,
          weekly \in IntervalInputs, monthly \in OccurrenceInputs,
          day \in DayInputs, start \in StartTimeInputs :
         LET ns == [EmptyNamespace EXCEPT !.enable_assessment = ea,
                                          !.enable_assessment_schedule = eas,
                                          !.assessment_weekly_interval = weekly,
                                          !.assessment_monthly_occurrence = monthly,
                                          !.assessment_day_of_week = day,
                                          !.assessment_start_time_local = start]
         IN  /\ op' = "validate_assessment"
             /\ args' = ns
             /\ namespace' = ns
             /\ Finish(validate_assessment_body(ns))
    /\ UNCHANGED <<env, frame>>

\* A validator that only rewrites the namespace: ns before, after after.
Normalizes(name, ns, after) ==
    /\ op' = name
    /\ args' = ns
    /\ namespace' = after
    /\ Finish(Returns(None, <<>>))
    /\ UNCHANGED <<env, frame>>

validate_sqlvm_group ==
    /\ pc = "idle"
    /\ \E rg \in ResourceGroups, group \in OptionalResourceInputs :
         LET ns == [EmptyNamespace EXCEPT
                      !.resource_group_name = Some(rg),
                      !.sql_virtual_machine_group_resource_id = group]
         IN  Normalizes("validate_sqlvm_group", ns, validate_sqlvm_group_body(ns))

validate_sqlvm_list ==
    /\ pc = "idle"
    /\ \E rg \in ResourceGroups, vms \in VmListInputs :
         LET ns == [EmptyNamespace EXCEPT
                      !.resource_group_name = Some(rg),
                      !.sql_virtual_machine_instances = Some(vms)]
         IN  Normalizes("validate_sqlvm_list", ns, validate_sqlvm_list_body(ns))

validate_load_balancer ==
    /\ pc = "idle"
    /\ \E rg \in ResourceGroups, lb \in OptionalResourceInputs :
         LET ns == [EmptyNamespace EXCEPT
                      !.resource_group_name = Some(rg),
                      !.load_balancer_resource_id = lb]
         IN  Normalizes("validate_load_balancer", ns, validate_load_balancer_body(ns))

validate_public_ip_address ==
    /\ pc = "idle"
    /\ \E rg \in ResourceGroups, public_ip \in OptionalResourceInputs :
         LET ns == [EmptyNamespace EXCEPT
                      !.resource_group_name = Some(rg),
                      !.public_ip_address_resource_id = public_ip]
         IN  Normalizes("validate_public_ip_address", ns,
                        validate_public_ip_address_body(ns))

-----------------------------------------------------------------------------
(* validate_azure_ad_authentication, stage by stage.                       *)

\* The stage has passed: go on at `next`, the calls it issued logged.
Proceed(next, r) ==
    /\ pc' = next
    /\ calls' = calls \o r.calls
    /\ UNCHANGED <<outcome, detail, retval>>

\* A variant that looks at skip_msi_validation before enable_azure_ad_auth.
feature_gate_skip_first(ns) ==
    IF ns.skip_msi_validation = Some(TRUE)
    THEN Some(Returns(None, <<>>))
    ELSE IF ns.enable_azure_ad_auth = Some(FALSE)
    THEN Some(Raises(InvalidArgumentValueError,
                     <<"Disable Azure AD authentication">>, <<>>))
    ELSE None

\* The feature gate and the skip-validation check: how the validator ends
\* there, or None when it goes on to the cloud gate.
feature_gate(ns) ==
    IF ns.enable_azure_ad_auth = Some(FALSE)
    THEN Some(Raises(InvalidArgumentValueError,
                     <<"Disable Azure AD authentication">>, <<>>))
    ELSE IF ns.skip_msi_validation = Some(TRUE)
    THEN Some(Returns(None, <<>>))
    ELSE None

\* validate_azure_ad_authentication(cmd, namespace) up to the cloud gate.
validate_azure_ad_authentication ==
    /\ pc = "idle"
    /\ \E enable \in OptionalBools, skip \in OptionalBools,
          msi \in ClientIdInputs, cloud \in CloudInputs :
         LET ns == [EmptyNamespace EXCEPT !.resource_group_name = Some("rg1"),
                                          !.sql_virtual_machine_name = Some("vm1"),
                                          !.enable_azure_ad_auth = enable,
                                          !.skip_msi_validation = skip,
                                          !.msi_client_id = msi]
             gate == feature_gate(ns)
         IN  /\ op' = "validate_azure_ad_authentication"
             /\ args' = ns
             /\ namespace' = ns
             /\ env' = [env EXCEPT !.cmd_ctx_cli = cloud]
             /\ IF gate # None
                THEN Finish(gate[1])
                ELSE Proceed("cloud_gate", Returns(None, <<>>))
    /\ UNCHANGED frame

\* The cloud gate: cmd.ctx_cli.cloud.name against the public cloud's name.
cloud_gate ==
    /\ pc = "cloud_gate"
    /\ IF ~hasattr(env.cmd_ctx_cli)
       THEN Finish(Raises("AttributeError", <<"ctx_cli">>, <<>>))
       ELSE IF env.cmd_ctx_cli.v # AZURE_PUBLIC_CLOUD
       THEN Finish(Raises(InvalidArgumentValueError, <<env.cmd_ctx_cli.v>>, <<>>))
       ELSE Proceed("sqlvm_stage", Returns(None, <<>>))
    /\ UNCHANGED <<op, args, namespace, env, frame>>

\* The call of _validate_azure_ad_authentication_supported_on_sqlvm.
sqlvm_stage ==
    /\ pc = "sqlvm_stage"
    /\ \E sqlvm \in SqlVmAnswers :
         LET r == validate_azure_ad_authentication_supported_on_sqlvm(sqlvm)
         IN  /\ env' = [env EXCEPT !.sqlvm = Some(sqlvm)]
             /\ IF r.outcome = "ok" THEN Proceed("msi_stage", r) ELSE Finish(r)
    /\ UNCHANGED <<op, args, namespace, frame>>

\* The call of _validate_msi_valid_on_vm; what it returns is not bound.
msi_stage ==
    /\ pc = "msi_stage"
    /\ \E vm \in VmAnswers :
         LET r == validate_msi_valid_on_vm(namespace, vm)
         IN  /\ env' = [env EXCEPT !.vm = Some(vm)]
             /\ frame' = [frame EXCEPT !.resolved = r.ret]
             /\ IF r.outcome = "ok" THEN Proceed("permission_stage", r) ELSE Finish(r)
    /\ UNCHANGED <<op, args, namespace>>

\* The call of _validate_msi_with_enough_permission(cmd.cli_ctx, namespace).
permission_stage ==
    /\ pc = "permission_stage"
    /\ \E directory \in Directories :
         /\ env' = [env EXCEPT !.directory = Some(directory)]
         /\ frame' = [frame EXCEPT !.principal_id = PyNamespace]
         /\ Finish(validate_msi_with_enough_permission(PyNamespace, directory))
    /\ UNCHANGED <<op, args, namespace>>

-----------------------------------------------------------------------------
(* The module's functions called on their own.                             *)

call_validate_msi_valid_on_vm ==
    /\ pc = "idle"
    /\ \E msi \in ClientIdInputs, vm \in VmAnswers :
         LET ns == [EmptyNamespace EXCEPT !.resource_group_name = Some("rg1"),
                                          !.sql_virtual_machine_name = Some("vm1"),
                                          !.msi_client_id = msi]
             r  == validate_msi_valid_on_vm(ns, vm)
         IN  /\ op' = "_validate_msi_valid_on_vm"
             /\ args' = ns
             /\ namespace' = ns
             /\ env' = [env EXCEPT !.vm = Some(vm)]
             /\ frame' = [frame EXCEPT !.resolved = r.ret]
             /\ Finish(r)

call_validate_msi_with_enough_permission ==
    /\ pc = "idle"
    /\ \E principal_id \in {"p-sys", "p-u1"}, directory \in Directories :
         /\ op' = "_validate_msi_with_enough_permission"
         /\ env' = [env EXCEPT !.directory = Some(directory)]
         /\ frame' = [frame EXCEPT !.principal_id = PyStr(principal_id)]
         /\ Finish(validate_msi_with_enough_permission(PyStr(principal_id), directory))
    /\ UNCHANGED <<args, namespace>>

call_find_role_id ==
    /\ pc = "idle"
    /\ \E graph \in GraphHealth, service_principals \in GraphSpInputs :
         LET directory == [graph |-> graph, roles |-> <<>>, assignments |-> <<>>,
                           service_principals |-> service_principals]
         IN  /\ op' = "_find_role_id"
             /\ env' = [env EXCEPT !.directory = Some(directory)]
             /\ Finish(_find_role_id(directory))
    /\ UNCHANGED <<args, namespace, frame>>

call_send ==
    /\ pc = "idle"
    /\ \E method \in MethodInputs, body \in BodyInputs, script \in Scripts("/x") :
         /\ op' = "_send"
         /\ env' = [env EXCEPT !.request = Some([method |-> method, body |-> body]),
                               !.script = Some(script)]
         /\ Finish(_send(method, "/x", None, body, script))
    /\ UNCHANGED <<args, namespace, frame>>

Next ==
    \/ validate_sqlvm_group
    \/ validate_sqlvm_list
    \/ validate_load_balancer
    \/ validate_public_ip_address
    \/ validate_subnet
    \/ validate_assessment
    \/ validate_azure_ad_authentication
    \/ cloud_gate
    \/ sqlvm_stage
    \/ msi_stage
    \/ permission_stage
    \/ call_validate_msi_valid_on_vm
    \/ call_validate_msi_with_enough_permission
    \/ call_find_role_id
    \/ call_send

Spec == Init /\ [][Next]_vars

-----------------------------------------------------------------------------
(* What the claims speak of.                                               *)

Done(name) == op = name /\ pc = "done"

RequiredScopes == <<USER_READ_ALL, APPLICATION_READ_ALL, GROUP_MEMBER_READ_ALL>>

HardcodedId(scope) ==
    CASE scope = USER_READ_ALL -> USER_READ_ALL_ROLE_ID
      [] scope = APPLICATION_READ_ALL -> APPLICATION_READ_ALL_ROLE_ID
      [] scope = GROUP_MEMBER_READ_ALL -> GROUP_MEMBER_READ_ALL_ROLE_ID

\* The ids the 'Microsoft Graph' service principal of d declares for scope.
DeclaredIds(d, scope) ==
    IF d.service_principals = <<>> THEN {}
    ELSE LET app_roles == d.service_principals[1].appRoles
         IN  {app_roles[i].id : i \in {j \in 1..Len(app_roles) :
                                         app_roles[j].value = scope}}

\* The id a scope resolves to: the declared one, else the hardcoded one.
ResolvedIds(d, scope) ==
    IF DeclaredIds(d, scope) = {} THEN {HardcodedId(scope)}
    ELSE DeclaredIds(d, scope)

HasAssignment(d, scope) ==
    \E i \in 1..Len(d.assignments) :
        d.assignments[i].appRoleId \in ResolvedIds(d, scope)

MissingScopes(d) == SelectSeq(RequiredScopes, LAMBDA s : ~HasAssignment(d, s))

HoldsDirectoryReaders(d) ==
    \E i \in 1..Len(d.roles) : d.roles[i].displayName = "Directory Readers"

Range(seq) == {seq[i] : i \in 1..Len(seq)}

\* C1: without the 'Directory Readers' role, the permission check passes
\* when every required scope has an assignment with its resolved id, and
\* otherwise fails with InvalidArgumentValueError naming exactly the
\* scopes without one, whatever the length, order and repeats of the list.
C1_AssignmentsDecideThePermissionCheck ==
    (/\ Done("_validate_msi_with_enough_permission")
     /\ env.directory[1].graph = "up"
     /\ ~HoldsDirectoryReaders(env.directory[1]))
    => IF MissingScopes(env.directory[1]) = <<>>
       THEN outcome = "ok"
       ELSE /\ outcome = InvalidArgumentValueError
            /\ Range(detail) = Range(MissingScopes(env.directory[1]))

\* C2: a principal that holds the 'Directory Readers' role passes the
\* permission check whatever its app-role assignments are.
C2_DirectoryReadersPasses ==
    (/\ Done("_validate_msi_with_enough_permission")
     /\ env.directory[1].graph = "up"
     /\ HoldsDirectoryReaders(env.directory[1]))
    => outcome = "ok"

\* Whether every answer of the script is a JSON page with a 'value' list.
IsListChain(script) ==
    \A k \in 1..Len(script) : script[k].kind = "json" /\ script[k].has_value

RECURSIVE ConcatValues(_)
ConcatValues(script) ==
    IF script = <<>> THEN <<>>
    ELSE Head(script).value \o ConcatValues(Tail(script))

\* C3: a GET through _send over a finite chain of pages issues one request
\* per page, each against the link of the page before, and returns the
\* pages' 'value' lists concatenated in page order.
C3_SendFollowsEveryPage ==
    (/\ Done("_send")
     /\ env.request[1].method = "GET"
     /\ IsListChain(env.script[1]))
    => /\ outcome = "ok"
       /\ Len(calls) = Len(env.script[1])
       /\ \A k \in 1..Len(calls) : calls[k].url.page = k
       /\ retval = PyList(ConcatValues(env.script[1]))

\* The principal the identity stage is to resolve: the system-assigned one
\* without msi_client_id, else that of the first identity with that client id.
ExpectedPrincipal(ns, vm) ==
    IF ns.msi_client_id = None
    THEN vm.identity[1].principal_id.v
    ELSE first_matching_umi(vm.identity[1].user_assigned_identities.v[1],
                            ns.msi_client_id)

\* C4: the permission stage of validate_azure_ad_authentication queries
\* the directory with the principal id the identity stage resolved.
C4_PermissionStageUsesResolvedPrincipal ==
    (/\ op = "validate_azure_ad_authentication"
     /\ frame.principal_id # None)
    => /\ frame.resolved = ExpectedPrincipal(args, env.vm[1])
       /\ frame.principal_id = PyStr(frame.resolved[1])

\* Whether a remote service a stage of the validation turned to has failed.
RemoteFailure ==
    \/ env.sqlvm # None /\ env.sqlvm[1].raised
    \/ env.vm # None /\ env.vm[1].raised
    \/ env.directory # None /\ env.directory[1].graph = "down"

StageOfCall(k) ==
    IF k = 1 THEN "sql_virtual_machines.get"
    ELSE IF k = 2 THEN "virtual_machines.get"
    ELSE "send_raw_request"

\* C6: the stages run in the order feature gate, skip check, cloud gate,
\* SQL VM fetch, VM fetch, permission fetch; a stage that fails ends the
\* check before any later call; disabling the feature fails with
\* InvalidArgumentValueError and skip_msi_validation succeeds, each
\* without a remote call.
C6_StagesRunInOrder ==
    op = "validate_azure_ad_authentication"
    => /\ \A k \in 1..Len(calls) : calls[k].api = StageOfCall(k)
       /\ \A k \in 1..(Len(calls) - 1) : ~calls[k].failed
       /\ pc = "cloud_gate" => calls = <<>>
       /\ pc = "sqlvm_stage" => calls = <<>>
       /\ pc = "msi_stage" => Len(calls) = 1
       /\ pc = "permission_stage" => Len(calls) = 2
       /\ outcome # "none" <=> pc = "done"
       /\ calls # <<>>
          => /\ args.enable_azure_ad_auth # Some(FALSE)
             /\ args.skip_msi_validation # Some(TRUE)
             /\ env.cmd_ctx_cli = Attr(AZURE_PUBLIC_CLOUD)
       /\ Len(calls) >= 2
          => /\ env.sqlvm # None
             /\ sql_image_offer_supported(env.sqlvm[1].sql_image_offer)
       /\ Len(calls) >= 3 => frame.resolved # None
       /\ (pc = "done" /\ outcome # "ok" /\ env.sqlvm = None) => calls = <<>>
       /\ (pc = "done" /\ outcome # "ok" /\ env.vm = None) => Len(calls) <= 1
       /\ (pc = "done" /\ outcome # "ok" /\ env.directory = None) => Len(calls) <= 2
       /\ args.enable_azure_ad_auth = Some(FALSE)
          => /\ pc = "done"
             /\ outcome = InvalidArgumentValueError
             /\ calls = <<>>
       /\ (args.skip_msi_validation = Some(TRUE)
           /\ args.enable_azure_ad_auth # Some(FALSE))
          => /\ pc = "done"
             /\ outcome = "ok"
             /\ calls = <<>>

C6_Witness ==
    /\ Done("validate_azure_ad_authentication")
    /\ Len(calls) = 2
    /\ ~calls[1].failed
    /\ outcome = InvalidArgumentValueError
    /\ env.directory = None

\* Whether a user-assigned identity of vm has the client id.
HasMatchingUmi(vm, client_id) ==
    /\ vm.identity # None
    /\ hasattr(vm.identity[1].user_assigned_identities)
    /\ vm.identity[1].user_assigned_identities.v # None
    /\ first_matching_umi(vm.identity[1].user_assigned_identities.v[1],
                          client_id) # None

HasSystemPrincipal(vm) ==
    /\ vm.identity # None
    /\ hasattr(vm.identity[1].principal_id)
    /\ vm.identity[1].principal_id.v # None

\* C7: after a successful VM fetch, _validate_msi_valid_on_vm returns the
\* system-assigned principal id (no msi_client_id) or that of the matching
\* user-assigned identity, and in every other case fails with
\* InvalidArgumentValueError, naming the requested client id when one was
\* requested: no identity block, identity list missing or None, no match.
C7_MsiResolvedOrInvalidArgument ==
    (/\ Done("_validate_msi_valid_on_vm")
     /\ ~env.vm[1].raised)
    => IF args.msi_client_id = None
       THEN IF HasSystemPrincipal(env.vm[1])
            THEN outcome = "ok" /\ retval = env.vm[1].identity[1].principal_id.v
            ELSE outcome = InvalidArgumentValueError
       ELSE IF HasMatchingUmi(env.vm[1], args.msi_client_id)
            THEN outcome = "ok" /\ retval = ExpectedPrincipal(args, env.vm[1])
            ELSE outcome = InvalidArgumentValueError /\ detail = args.msi_client_id

C9_SubnetShapes ==
    Done("validate_subnet")
    => LET subnet == args.subnet_resource_id
           vnet   == args.vnet_name
           no_vnet == vnet = None \/ vnet = <<"">>
           is_id  == is_valid_resource_id(subnet)
       IN  IF ~no_vnet /\ Len(vnet) > 1
           THEN outcome = InvalidArgumentValueError /\ namespace = args
           ELSE IF is_id /\ no_vnet
           THEN outcome = "ok" /\ namespace = args
           ELSE IF ~is_id /\ ~no_vnet
           THEN /\ outcome = "ok"
                /\ namespace =
                     [args EXCEPT !.subnet_resource_id =
                        <<"", "subscriptions", get_subscription_id,
                          "resourceGroups", args.resource_group_name[1],
                          "providers", "Microsoft.Network", "virtualNetworks">>
                        \o vnet \o <<"subnets">> \o subnet]
           ELSE outcome = MutuallyExclusiveArgumentError /\ namespace = args

C9_Witness ==
    /\ Done("validate_subnet")
    /\ outcome = "ok"
    /\ args.subnet_resource_id = <<"sn1">>
    /\ is_valid_resource_id(namespace.subnet_resource_id)
    /\ namespace.subnet_resource_id # args.subnet_resource_id

\* C10: validate_assessment raises nothing when no schedule field is set;
\* with one set it fails with InvalidArgumentValueError when either enable
\* flag is False, with MutuallyExclusiveArgumentError when weekly interval
\* and monthly occurrence are both set, with RequiredArgumentMissingError
\* when neither is set or day of week or start time is missing, and
\* passes only with exactly one of the two and both day and start time.
C10_AssessmentSchedule ==
    Done("validate_assessment")
    => LET set(f) == args[f] # None
           weekly  == set("assessment_weekly_interval")
           monthly == set("assessment_monthly_occurrence")
           day     == set("assessment_day_of_week")
           start   == set("assessment_start_time_local")
       IN  /\ namespace = args
           /\ IF ~(weekly \/ monthly \/ day \/ start)
              THEN outcome = "ok"
              ELSE IF \/ args.enable_assessment_schedule = Some(FALSE)
                      \/ args.enable_assessment = Some(FALSE)
              THEN outcome = InvalidArgumentValueError
              ELSE IF weekly /\ monthly
              THEN outcome = MutuallyExclusiveArgumentError
              ELSE IF (~weekly /\ ~monthly) \/ ~day \/ ~start
              THEN outcome = RequiredArgumentMissingError
              ELSE outcome = "ok"
           /\ (outcome = "ok" /\ (weekly \/ monthly \/ day \/ start))
              => (weekly # monthly) /\ day /\ start

C10_Witness ==
    /\ Done("validate_assessment")
    /\ outcome = "ok"
    /\ args.assessment_weekly_interval = Some(0)
    /\ args.assessment_monthly_occurrence = None
    /\ args.assessment_start_time_local = Some("")

\* The identifier of `name` under provider and type in the ambient
\* subscription and the resource group of the call.
FullyQualified(provider, type, name) ==
    <<"", "subscriptions", get_subscription_id,
      "resourceGroups", args.resource_group_name[1],
      "providers", provider, type>> \o name

\* What a field holding `before` is to hold after normalization; a value
\* that is neither an id nor a name (absent, empty) is not spoken of.
NormalizedAs(before, after, provider, type) ==
    IF is_valid_resource_id(before) THEN after = before
    ELSE IF before # None /\ before # <<"">>
    THEN after = FullyQualified(provider, type, before)
    ELSE TRUE

\* The fields of the namespace other than field f are as they were.
OthersUnchanged(f) ==
    \A g \in DOMAIN args \ {f} : namespace[g] = args[g]

\* C11: each resource-normalizing validator leaves a valid resource id
\* unchanged and replaces a bare name by the identifier built from the
\* ambient subscription, the resource group and the field's provider
\* namespace and type; the list is normalized element by element, its
\* length and order kept; no other field of the namespace is modified.
C11_NamesBecomeResourceIds ==
    /\ Done("validate_sqlvm_group")
       => /\ outcome = "ok"
          /\ OthersUnchanged("sql_virtual_machine_group_resource_id")
          /\ NormalizedAs(args.sql_virtual_machine_group_resource_id,
                          namespace.sql_virtual_machine_group_resource_id,
                          "Microsoft.SqlVirtualMachine", "sqlVirtualMachineGroups")
    /\ Done("validate_sqlvm_list")
       => LET before == args.sql_virtual_machine_instances[1]
              after  == namespace.sql_virtual_machine_instances[1]
          IN  /\ outcome = "ok"
              /\ OthersUnchanged("sql_virtual_machine_instances")
              /\ Len(after) = Len(before)
              /\ \A n \in 1..Len(before) :
                    NormalizedAs(before[n], after[n],
                                 "Microsoft.SqlVirtualMachine", "sqlVirtualMachines")
    /\ Done("validate_load_balancer")
       => /\ outcome = "ok"
          /\ OthersUnchanged("load_balancer_resource_id")
          /\ NormalizedAs(args.load_balancer_resource_id,
                          namespace.load_balancer_resource_id,
                          "Microsoft.Network", "loadBalancers")
    /\ Done("validate_public_ip_address")
       => /\ outcome = "ok"
          /\ OthersUnchanged("public_ip_address_resource_id")
          /\ NormalizedAs(args.public_ip_address_resource_id,
                          namespace.public_ip_address_resource_id,
                          "Microsoft.Network", "publicIPAddresses")

C11_Witness ==
    /\ Done("validate_sqlvm_list")
    /\ Len(args.sql_virtual_machine_instances[1]) = 2
    /\ is_valid_resource_id(args.sql_virtual_machine_instances[1][1])
    /\ args.sql_virtual_machine_instances[1][2] = <<"n1">>
    /\ namespace.sql_virtual_machine_instances[1][1]
         = args.sql_virtual_machine_instances[1][1]
    /\ namespace.sql_virtual_machine_instances[1][2]
         = <<"", "subscriptions", "sub1", "resourceGroups", "rg2", "providers",
             "Microsoft.SqlVirtualMachine", "sqlVirtualMachines", "n1">>

=============================================================================
